---- MODULE Spec2Model ----
(***************************************************************************)
(* AppURLBuilder of the hawkeye test suite (test-suite/application.py):    *)
(* construction of the alias table from a list of AppVersion records and   *)
(* build_url lookups against it.  Strings are sequences of one-character   *)
(* strings, so that keys built by concatenation can coincide, slashes can  *)
(* be stripped and str.format can be scanned as Python does.               *)
(* TransactionHandler of the python application (python-app/datastore.py): *)
(* the counter increments run in datastore transactions, and the status    *)
(* each request reports.                                                   *)
(***************************************************************************)
EXTENDS Integers, Sequences, FiniteSets, TLC

VARIABLES
  app_versions,   \* constructor argument: the list of AppVersion records
  language,       \* constructor argument: the language under test
  pc,             \* "new" (not constructed), "failed", "built" (idle),
                  \* "called" (build_url has just run)
  attrs,          \* names of the attributes assigned on self so far
  self_language,  \* self.language
  versions_dict,  \* self._versions_dict (the empty mapping while unassigned)
  inserted,       \* history of the (key, value) pairs set in _versions_dict
  ctor_error,     \* the exception raised by __init__, if any
  call,           \* arguments of the latest build_url call
  version_full_name, \* the local version_full_name of that call, None until set
  app_version,    \* the local app_version of the latest call: <<>> or <<rec>>
  result,         \* outcome of the latest build_url call
  store,          \* the Counter entities of the datastore: key name -> counter
  request,        \* the TransactionHandler request being served, if any
  before,         \* the Counter entities when that request arrived
  txn,            \* how its transaction ended: "none", "commit", "abort"
  response,       \* what the request wrote, or the exception that left get
  requested       \* the key parameters of the get requests served so far

url_vars == <<app_versions, language, pc, attrs, self_language, versions_dict,
              inserted, ctor_error, call, version_full_name, app_version,
              result>>

txn_vars == <<store, request, before, txn, response, requested>>

vars == <<url_vars, txn_vars>>

(***************************************************************************)
(* Bounds of the model.                                                    *)
(***************************************************************************)
MaxRecords == 2   \* longest enumerated record list

(***************************************************************************)
(* Strings.                                                                *)
(***************************************************************************)
\* The characters used by the model, in ascending code-point order.
Ascii ==
  << ".", "/", "1", "2", "3", ":", "A", "B", "C", "X", "a", "d", "e", "g",
     "h", "i", "l", "m", "n", "o", "p", "s", "t", "u", "v", "x", "{", "}" >>

Ord(c) == CHOOSE i \in 1..Len(Ascii) : Ascii[i] = c

\* Python's None, distinct from every string of the model.
None == << "None" >>

\* s < t for Python strings (lexicographic by code point).
RECURSIVE StrLess(_, _)
StrLess(s, t) ==
  IF t = <<>> THEN FALSE
  ELSE IF s = <<>> THEN TRUE
  ELSE IF Head(s) = Head(t) THEN StrLess(Tail(s), Tail(t))
  ELSE Ord(Head(s)) < Ord(Head(t))

\* sorted(S) for a set of strings.
RECURSIVE sorted(_)
sorted(S) ==
  IF S = {} THEN <<>>
  ELSE LET m == CHOOSE x \in S : \A y \in S \ {x} : StrLess(x, y)
       IN  <<m>> \o sorted(S \ {m})

\* s.rstrip("/")
RECURSIVE rstrip(_)
rstrip(s) ==
  IF s # <<>> /\ s[Len(s)] = "/" THEN rstrip(SubSeq(s, 1, Len(s) - 1)) ELSE s

\* s.lstrip("/")
RECURSIVE lstrip(_)
lstrip(s) ==
  IF s # <<>> /\ Head(s) = "/" THEN lstrip(Tail(s)) ELSE s

\* Index of the "}" closing the replacement field opened just before
\* position i (nested braces counted), or 0 when the string ends first.
RECURSIVE FieldEnd(_, _, _)
FieldEnd(s, i, depth) ==
  IF i > Len(s) THEN 0
  ELSE IF s[i] = "{" THEN FieldEnd(s, i + 1, depth + 1)
  ELSE IF s[i] = "}" THEN (IF depth = 1 THEN i ELSE FieldEnd(s, i + 1, depth - 1))
  ELSE FieldEnd(s, i + 1, depth)

lang == << "l", "a", "n", "g" >>

IsDigits(s) == s # <<>> /\ \A i \in 1..Len(s) : s[i] \in {"1", "2", "3"}

\* Outcome of looking one field name up with no positional arguments and the
\* single keyword argument lang.
FieldKind(name) ==
  IF \E i \in 1..Len(name) : name[i] \in {"{", "}"} THEN "ValueError"
  ELSE IF name = <<>> \/ IsDigits(name) THEN "IndexError"
  ELSE IF name = lang THEN "ok"
  ELSE "KeyError"

\* s[i..].format(lang=value): [kind |-> "ok", s |-> text] or the first error
\* met scanning left to right.
RECURSIVE FormatFrom(_, _, _)
FormatFrom(s, i, value) ==
  IF i > Len(s) THEN [kind |-> "ok", s |-> <<>>]
  ELSE IF s[i] = "}" THEN
    IF i < Len(s) /\ s[i + 1] = "}"
    THEN LET r == FormatFrom(s, i + 2, value)
         IN  IF r.kind = "ok" THEN [kind |-> "ok", s |-> <<"}">> \o r.s] ELSE r
    ELSE [kind |-> "ValueError", s |-> <<>>]
  ELSE IF s[i] = "{" THEN
    IF i = Len(s) THEN [kind |-> "ValueError", s |-> <<>>]
    ELSE IF s[i + 1] = "{"
    THEN LET r == FormatFrom(s, i + 2, value)
         IN  IF r.kind = "ok" THEN [kind |-> "ok", s |-> <<"{">> \o r.s] ELSE r
    ELSE LET j == FieldEnd(s, i + 1, 1)
         IN  IF j = 0 THEN [kind |-> "ValueError", s |-> <<>>]
             ELSE LET k == FieldKind(SubSeq(s, i + 1, j - 1))
                  IN  IF k # "ok" THEN [kind |-> k, s |-> <<>>]
                      ELSE LET r == FormatFrom(s, j + 1, value)
                           IN  IF r.kind = "ok"
                               THEN [kind |-> "ok", s |-> value \o r.s]
                               ELSE r
  ELSE LET r == FormatFrom(s, i + 1, value)
       IN  IF r.kind = "ok" THEN [kind |-> "ok", s |-> <<s[i]>> \o r.s] ELSE r

\* path.format(lang=value)
format(path, value) == FormatFrom(path, 1, value)

(***************************************************************************)
(* AppVersion (application_versions.py): the alias of a version.           *)
(***************************************************************************)
dot == << "." >>

get_version_alias(app_id, module, version) ==
  IF module = None /\ version = None THEN app_id
  ELSE IF version = None THEN module \o dot \o app_id
  ELSE version \o dot \o module \o dot \o app_id

full_name(v) == get_version_alias(v.app_id, v.module, v.version)

(***************************************************************************)
(* Inputs.                                                                 *)
(***************************************************************************)
X  == << "X" >>
AX == << "A", ".", "X" >>
A  == << "A" >>
B  == << "B" >>
v1 == << "v", "1" >>
v2 == << "v", "2" >>
v3 == << "v", "3" >>
sample  == << "s", "a", "m", "p", "l", "e" >>
moduleA == << "m", "o", "d", "u", "l", "e", "A" >>
moduleB == << "m", "o", "d", "u", "l", "e", "B" >>
moduleC == << "m", "o", "d", "u", "l", "e", "C" >>

HttpsSlash   == << "h","t","t","p","s",":","/","/","h",":","1","/" >>
HttpsNoSlash == << "h","t","t","p","s",":","/","/","h",":","1" >>
HttpNoSlash  == << "h","t","t","p",":","/","/","h",":","2" >>
HttpSlashes  == << "h","t","t","p",":","/","/","h",":","2","/","/" >>

AppVersion(app_id, module, version, dfm, dm) ==
  [ app_id |-> app_id, module |-> module, version |-> version,
    http_url  |-> IF version = v1 THEN HttpNoSlash ELSE HttpSlashes,
    https_url |-> IF version = v1 THEN HttpsSlash ELSE HttpsNoSlash,
    is_default_for_module |-> dfm, is_default_module |-> dm ]

\* The records the enumerated lists are made of.
Names == { <<X, A, v1>>, <<X, A, v2>>, <<X, B, v1>>, <<AX, B, v1>> }

Records ==
  { AppVersion(n[1], n[2], n[3], dfm, dm) :
      n \in Names, dfm \in BOOLEAN, dm \in BOOLEAN }

Lists == UNION { [1..n -> Records] : n \in 0..MaxRecords }

\* spec.md P2: X/A/v1 (module default, app default), X/A/v2
ListP2 ==
  << AppVersion(X, A, v1, TRUE, TRUE), AppVersion(X, A, v2, FALSE, FALSE) >>

\* spec.md Scenario: sample/moduleA v1 (default), v2; moduleB v1 (default, app default)
ListScenario ==
  << AppVersion(sample, moduleA, v1, TRUE, FALSE),
     AppVersion(sample, moduleA, v2, FALSE, FALSE),
     AppVersion(sample, moduleB, v1, TRUE, TRUE) >>

en       == << "e", "n" >>
LangLang == << "{", "l", "a", "n", "g", "}" >>
Languages == { en, LangLang }

PathApiX      == << "/", "a", "p", "i", "/", "x" >>
PathApiXBare  == << "a", "p", "i", "/", "x" >>
PathLangAdd   == << "/", "{", "l", "a", "n", "g", "}", "/", "a", "d", "d" >>
PathTwoLang   == << "{", "l", "a", "n", "g", "}", "/", "/", "{", "l", "a", "n", "g", "}" >>
PathEscaped   == << "/", "a", "{", "{", "x", "}", "}" >>
PathEscLang   == << "{", "{", "l", "a", "n", "g", "}", "}" >>
PathOtherKey  == << "/", "{", "i", "d", "}" >>
PathAuto      == << "/", "x", "{", "}" >>
PathOpen      == << "/", "x", "{" >>
PathClose     == << "x", "}", "/" >>

Paths ==
  { PathApiX, PathApiXBare, PathLangAdd, PathTwoLang, PathEscaped,
    PathEscLang, PathOtherKey, PathAuto, PathOpen, PathClose }

\* (app_id, module, version) of the calls; a version is given only with a module.
Lookups ==
  { <<a, None, None>> : a \in {X, AX, sample} }
    \cup { <<a, m, v>> : a \in {X, AX}, m \in {A, B}, v \in {None, v1, v2, v3} }
    \cup { <<sample, m, v>> : m \in {moduleA, moduleB, moduleC}, v \in {None, v1, v2} }

\* The build_url calls made: every lookup with two ordinary paths, and every
\* path with a few lookups.
Calls ==
  { << l[1], path, l[2], l[3], https >> :
      l \in Lookups, path \in {PathApiX, PathLangAdd}, https \in BOOLEAN }
    \cup
  { << l[1], path, l[2], l[3], https >> :
      l \in { <<X, None, None>>, <<X, A, v2>>, <<sample, moduleB, None>> },
      path \in Paths, https \in BOOLEAN }

NoCall   == [ app_id |-> <<>>, path |-> <<>>, module |-> None, version |-> None,
              https |-> FALSE ]
NoResult == [ kind |-> "none", url |-> <<>>, v |-> None, m |-> None, known |-> <<>> ]

(***************************************************************************)
(* TransactionHandler: requests and responses.                             *)
(***************************************************************************)
NoRequest  == [ method |-> "none", key |-> <<>>, amount |-> 0, xg |-> FALSE ]
NoResponse == [ kind |-> "none", success |-> FALSE, counter |-> <<>>,
                backup |-> <<>> ]

\* No TransactionHandler request has been served and no Counter is stored.
DatastoreEmpty ==
  /\ store = <<>>
  /\ request = NoRequest
  /\ before = <<>>
  /\ txn = "none"
  /\ response = NoResponse
  /\ requested = {}

Init ==
  /\ \/ app_versions \in Lists /\ language = en
     \/ app_versions \in {ListP2, ListScenario} /\ language \in Languages
  /\ pc = "new"
  /\ attrs = {}
  /\ self_language = <<>>
  /\ versions_dict = <<>>
  /\ inserted = <<>>
  /\ ctor_error = <<>>
  /\ call = NoCall
  /\ version_full_name = None
  /\ app_version = <<>>
  /\ result = NoResult
  /\ DatastoreEmpty

(***************************************************************************)
(* AppURLBuilder.__init__                                                  *)
(***************************************************************************)
is_default_for_module(v) == v.is_default_for_module

is_default_module(v) == v.is_default_module

\* modules = {v.module for v in app_versions}
modules(versions) == { versions[i].module : i \in 1..Len(versions) }

\* Mutant of module_default_versions: only the first default found is kept.
module_default_versions_first(versions) ==
  LET all == SelectSeq(versions, is_default_for_module)
  IN  IF all = <<>> THEN <<>> ELSE << all[1] >>

\* [v for v in app_versions if v.is_default_for_module]
module_default_versions(versions) == SelectSeq(versions, is_default_for_module)

\* Mutant of app_default_versions: taken from the whole list.
app_default_versions_of_all(versions) == SelectSeq(versions, is_default_module)

\* [v for v in module_default_versions if v.is_default_module]
app_default_versions(versions) ==
  SelectSeq(module_default_versions(versions), is_default_module)

\* sum(1 for v in module_default_versions if v.module == m)
num_of_default(versions, m) ==
  LET mdv == module_default_versions(versions)
  IN  Cardinality({ i \in 1..Len(mdv) : mdv[i].module = m })

\* Mutant of Items: a module alias is added for every record, default or not.
Items_alias_every_version(versions) ==
  LET adv == app_default_versions(versions)
  IN  [ i \in 1..Len(versions) |-> << full_name(versions[i]), versions[i] >> ]
      \o [ i \in 1..Len(versions) |->
             << get_version_alias(versions[i].app_id, versions[i].module, None),
                versions[i] >> ]
      \o [ i \in 1..Len(adv) |->
             << get_version_alias(adv[i].app_id, None, None), adv[i] >> ]

\* The (key, value) pairs set in _versions_dict, in the order they are set:
\* full names, then module aliases, then application aliases.
Items(versions) ==
  LET mdv == module_default_versions(versions)
      adv == app_default_versions(versions)
  IN  [ i \in 1..Len(versions) |-> << full_name(versions[i]), versions[i] >> ]
      \o [ i \in 1..Len(mdv) |->
             << get_version_alias(mdv[i].app_id, mdv[i].module, None), mdv[i] >> ]
      \o [ i \in 1..Len(adv) |->
             << get_version_alias(adv[i].app_id, None, None), adv[i] >> ]

\* Mutant of DictOf: a key already set keeps its first value.
DictOf_first_wins(items) ==
  [ k \in { items[i][1] : i \in 1..Len(items) } |->
      LET first == CHOOSE i \in 1..Len(items) :
                     /\ items[i][1] = k
                     /\ \A j \in 1..(i - 1) : items[j][1] # k
      IN  items[first][2] ]

\* The dict left by setting the pairs in order: the last value set for a key stays.
DictOf(items) ==
  [ k \in { items[i][1] : i \in 1..Len(items) } |->
      LET last == CHOOSE i \in 1..Len(items) :
                    /\ items[i][1] = k
                    /\ \A j \in (i + 1)..Len(items) : items[j][1] # k
      IN  items[last][2] ]

\* Mutant of ImproperModules: the check written as "more than one default".
ImproperModules_more_than_one(versions) ==
  { m \in modules(versions) : num_of_default(versions, m) > 1 }

\* The modules the verification loop can raise for: the loop walks a set, so
\* any module with a wrong count may be the first one met.
ImproperModules(versions) ==
  { m \in modules(versions) : num_of_default(versions, m) # 1 }

init ==
  /\ pc = "new"
  /\ self_language' = language
  /\ IF ImproperModules(app_versions) # {}
     THEN /\ \E m \in ImproperModules(app_versions) :
                ctor_error' = << [ module |-> m,
                                   num |-> num_of_default(app_versions, m) ] >>
          /\ pc' = "failed"
          /\ attrs' = {"language"}
          /\ UNCHANGED <<versions_dict, inserted>>
     ELSE /\ versions_dict' = DictOf(Items(app_versions))
          /\ inserted' = Items(app_versions)
          /\ pc' = "built"
          /\ attrs' = {"language", "_versions_dict"}
          /\ UNCHANGED ctor_error
  /\ UNCHANGED <<app_versions, language, call, version_full_name, app_version,
                 result>>
  /\ UNCHANGED txn_vars

(***************************************************************************)
(* AppURLBuilder.build_url, called by Application.request                  *)
(***************************************************************************)
\* Mutant of join: the base URL is used as given.
join_base_unstripped(base_url, path) == base_url \o << "/" >> \o lstrip(path)

\* "{base}/{path}".format(base=base_url.rstrip("/"), path=path.lstrip("/"))
join(base_url, path) == rstrip(base_url) \o << "/" >> \o lstrip(path)

\* Mutant of known_versions: the keys in descending order.
known_versions_descending(d) ==
  LET up == sorted(DOMAIN d)
  IN  [ i \in 1..Len(up) |-> up[Len(up) + 1 - i] ]

\* known = sorted(self._versions_dict)
known_versions(d) == sorted(DOMAIN d)

\* The outcome of build_url on the given alias table and language.
build_url_result(d, language_, app_id, path, module, version, https) ==
  LET p   == format(path, language_)
      key == get_version_alias(app_id, module, version)
  IN  IF p.kind # "ok"
      THEN [ NoResult EXCEPT !.kind = p.kind ]
      ELSE IF key \notin DOMAIN d
      THEN [ NoResult EXCEPT !.kind = "UnknownVersion", !.v = version,
                             !.m = module, !.known = known_versions(d) ]
      ELSE LET base_url == IF https THEN d[key].https_url ELSE d[key].http_url
           IN  [ NoResult EXCEPT !.kind = "url", !.url = join(base_url, p.s) ]

\* Mutant of build_url: a key that misses is remembered in the table.
build_url_remembering(app_id, path, module, version, https) ==
  /\ pc = "built"
  /\ call' = [ app_id |-> app_id, path |-> path, module |-> module,
               version |-> version, https |-> https ]
  /\ result' = build_url_result(versions_dict, self_language, app_id, path,
                                module, version, https)
  /\ version_full_name' =
       IF format(path, self_language).kind = "ok"
       THEN get_version_alias(app_id, module, version) ELSE None
  /\ app_version' =
       LET key == get_version_alias(app_id, module, version)
       IN  IF format(path, self_language).kind = "ok" /\ key \in DOMAIN versions_dict
           THEN << versions_dict[key] >> ELSE <<>>
  /\ versions_dict' =
       LET key == get_version_alias(app_id, module, version)
       IN  IF key \in DOMAIN versions_dict \/ DOMAIN versions_dict = {}
           THEN versions_dict
           ELSE [ k \in DOMAIN versions_dict \cup {key} |->
                    IF k \in DOMAIN versions_dict THEN versions_dict[k]
                    ELSE versions_dict[CHOOSE d \in DOMAIN versions_dict : TRUE] ]
  /\ pc' = "called"
  /\ UNCHANGED <<app_versions, language, attrs, self_language, inserted,
                 ctor_error>>
  /\ UNCHANGED txn_vars

build_url(app_id, path, module, version, https) ==
  /\ pc = "built"
  /\ call' = [ app_id |-> app_id, path |-> path, module |-> module,
               version |-> version, https |-> https ]
  /\ result' = build_url_result(versions_dict, self_language, app_id, path,
                                module, version, https)
  /\ version_full_name' =
       IF format(path, self_language).kind = "ok"
       THEN get_version_alias(app_id, module, version) ELSE None
  /\ app_version' =
       LET key == get_version_alias(app_id, module, version)
       IN  IF format(path, self_language).kind = "ok" /\ key \in DOMAIN versions_dict
           THEN << versions_dict[key] >> ELSE <<>>
  /\ pc' = "called"
  /\ UNCHANGED <<app_versions, language, attrs, self_language, versions_dict,
                 inserted, ctor_error>>
  /\ UNCHANGED txn_vars

\* Application.request hands the URL to hawkeye_request, or the exception
\* reaches the test case; either way the call is over.
request_return ==
  /\ pc = "called"
  /\ pc' = "built"
  /\ call' = NoCall
  /\ version_full_name' = None
  /\ app_version' = <<>>
  /\ result' = NoResult
  /\ UNCHANGED <<app_versions, language, attrs, self_language, versions_dict,
                 inserted, ctor_error>>
  /\ UNCHANGED txn_vars

Next ==
  \/ init
  \/ \E c \in Calls : build_url(c[1], c[2], c[3], c[4], c[5])
  \/ request_return

Spec == Init /\ [][Next]_vars

(***************************************************************************)
(* TransactionHandler (python-app/datastore.py).  A transaction is atomic: *)
(* the entities it put are stored when its function returns, and none is   *)
(* when its function raises.                                               *)
(***************************************************************************)
MaxAmount  == 5   \* largest amount parameter requested
MaxCounter == 6   \* requests that would store a larger counter are not made

\* if counter.counter == 5: raise Exception('Mock Exception')
MockLimit == 5

\* Key names are sequences of tokens; "_backup" is the suffix appended to a key.
KeyA       == << "a" >>
KeyB       == << "b" >>
KeyABackup == << "a", "_backup" >>

Keys == { KeyA, KeyB, KeyABackup }

Amounts == 0..MaxAmount

\* backup = key + '_backup'
backup_key(key) == key \o << "_backup" >>

\* entity.put() on the entities s
Put(s, k, c) == [ x \in DOMAIN s \cup {k} |-> IF x = k THEN c ELSE s[x] ]

\* The loop of increment_counter with the exception raised once the counter is
\* past 5 (used by the mutant of increment_counter).
RECURSIVE CounterLoop_past_limit(_, _, _, _)
CounterLoop_past_limit(s, key, c, n) ==
  IF n = 0 THEN [ raised |-> "none", store |-> s ]
  ELSE IF c + 1 > MockLimit THEN [ raised |-> "Exception", store |-> s ]
  ELSE CounterLoop_past_limit(Put(s, key, c + 1), key, c + 1, n - 1)

\* for i in range(0, amount) of increment_counter, the counter being c.
RECURSIVE CounterLoop(_, _, _, _)
CounterLoop(s, key, c, n) ==
  IF n = 0 THEN [ raised |-> "none", store |-> s ]
  ELSE IF c + 1 = MockLimit THEN [ raised |-> "Exception", store |-> s ]
  ELSE CounterLoop(Put(s, key, c + 1), key, c + 1, n - 1)

\* Mutant of increment_counter: the limit test lets the value 5 be stored.
increment_counter_past_limit(s, key, amount) ==
  CounterLoop_past_limit(s, key, IF key \in DOMAIN s THEN s[key] ELSE 0, amount)

\* increment_counter(key, amount) run on the entities s: the exception raised,
\* if any, and the entities as put.
increment_counter(s, key, amount) ==
  CounterLoop(s, key, IF key \in DOMAIN s THEN s[key] ELSE 0, amount)

\* for i in range(0, amount) of increment_counters; c2 is <<>> when counter2
\* is None, and then counter2.counter raises AttributeError.
RECURSIVE CountersLoop(_, _, _, _, _)
CountersLoop(s, key, c1, c2, n) ==
  IF n = 0 THEN [ raised |-> "none", store |-> s ]
  ELSE IF c2 = <<>> THEN [ raised |-> "AttributeError", store |-> s ]
  ELSE IF c1 + 1 = MockLimit THEN [ raised |-> "Exception", store |-> s ]
  ELSE CountersLoop(Put(Put(s, key, c1 + 1), backup_key(key), c2[1] + 1),
                    key, c1 + 1, << c2[1] + 1 >>, n - 1)

\* increment_counters(key, amount) run on the entities s.
increment_counters(s, key, amount) ==
  IF key \notin DOMAIN s
  THEN CountersLoop(s, key, 0, << 0 >>, amount)
  ELSE CountersLoop(s, key, s[key],
                    IF backup_key(key) \in DOMAIN s
                    THEN << s[backup_key(key)] >> ELSE <<>>,
                    amount)

\* db.run_in_transaction(function, ...): the entities afterwards.
run_in_transaction(s, r) == IF r.raised = "none" THEN r.store ELSE s

\* The status built from the entities s after the transaction, in the try
\* block when it committed and in the except block when it raised; a Counter
\* that is None raises AttributeError, which in the try block leads to the
\* except block and there leaves get.
get_status(s, committed, key, xg) ==
  IF key \notin DOMAIN s \/ (xg /\ backup_key(key) \notin DOMAIN s)
  THEN [ NoResponse EXCEPT !.kind = "AttributeError" ]
  ELSE [ kind |-> "status", success |-> committed, counter |-> << s[key] >>,
         backup |-> IF xg THEN << s[backup_key(key)] >> ELSE <<>> ]

\* TransactionHandler.get with parameters key, amount and xg.
get(key, amount, xg) ==
  LET r == IF xg THEN increment_counters(store, key, amount)
           ELSE increment_counter(store, key, amount)
      after == run_in_transaction(store, r)
  IN  /\ request = NoRequest
      /\ \A k \in DOMAIN r.store : r.store[k] <= MaxCounter
      /\ request' = [ method |-> "get", key |-> key, amount |-> amount,
                      xg |-> xg ]
      /\ before' = store
      /\ store' = after
      /\ txn' = IF r.raised = "none" THEN "commit" ELSE "abort"
      /\ response' = get_status(after, r.raised = "none", key, xg)
      /\ requested' = requested \cup {key}
      /\ UNCHANGED url_vars

\* TransactionHandler.delete: db.delete(Counter.all())
delete ==
  /\ request = NoRequest
  /\ request' = [ NoRequest EXCEPT !.method = "delete" ]
  /\ before' = store
  /\ store' = <<>>
  /\ txn' = "none"
  /\ response' = [ NoResponse EXCEPT !.kind = "empty" ]
  /\ requested' = {}
  /\ UNCHANGED url_vars

\* The response, or the error page of an exception that left the handler, has
\* gone to the client; the handler serves the next request.
response_sent ==
  /\ request # NoRequest
  /\ request' = NoRequest
  /\ before' = <<>>
  /\ txn' = "none"
  /\ response' = NoResponse
  /\ UNCHANGED <<store, requested>>
  /\ UNCHANGED url_vars

TxnInit ==
  /\ app_versions = <<>>
  /\ language = en
  /\ pc = "new"
  /\ attrs = {}
  /\ self_language = <<>>
  /\ versions_dict = <<>>
  /\ inserted = <<>>
  /\ ctor_error = <<>>
  /\ call = NoCall
  /\ version_full_name = None
  /\ app_version = <<>>
  /\ result = NoResult
  /\ DatastoreEmpty

TxnNext ==
  \/ \E key \in Keys, amount \in Amounts, xg \in BOOLEAN : get(key, amount, xg)
  \/ delete
  \/ response_sent

TxnSpec == TxnInit /\ [][TxnNext]_vars

(***************************************************************************)
(* Properties.                                                             *)
(***************************************************************************)
Constructed == pc \in {"built", "called"}

\* Number of records of module m flagged is_default_for_module, over the
\* whole list whatever their app id.
DefaultCount(m) ==
  Cardinality({ i \in 1..Len(app_versions) :
                  /\ app_versions[i].module = m
                  /\ app_versions[i].is_default_for_module })

PresentModules == { app_versions[i].module : i \in 1..Len(app_versions) }

DotFree(s) == \A i \in 1..Len(s) : s[i] # "."

RecordsDotFree ==
  \A i \in 1..Len(app_versions) :
    /\ DotFree(app_versions[i].app_id)
    /\ DotFree(app_versions[i].module)
    /\ DotFree(app_versions[i].version)

CallDotFree ==
  /\ DotFree(call.app_id)
  /\ call.module # None => DotFree(call.module)
  /\ call.version # None => DotFree(call.version)

\* The lookup of line 225 has been made in the latest call.
LookedUp == pc = "called" /\ version_full_name # None

\* Index of the last record of the list satisfying P, or 0.
LastIndex(P(_)) ==
  LET S == { i \in 1..Len(app_versions) : P(app_versions[i]) }
  IN  IF S = {} THEN 0 ELSE CHOOSE i \in S : \A j \in S : j <= i

\* C1: construction raises ImproperVersionsList if and only if some module
\* name present in the list (grouped by module name alone, whatever the app
\* id) has a number of is_default_for_module records different from 1; the
\* error names such a module and the count found for it, no alias table has
\* been stored when it is raised, and every other list constructs.
C1_ImproperVersionsIff ==
  pc # "new" =>
    /\ (pc = "failed") <=> (\E m \in PresentModules : DefaultCount(m) # 1)
    /\ pc = "failed" =>
         /\ Len(ctor_error) = 1
         /\ ctor_error[1].module \in PresentModules
         /\ ctor_error[1].num = DefaultCount(ctor_error[1].module)
         /\ ctor_error[1].num # 1
         /\ "_versions_dict" \notin attrs
         /\ inserted = <<>>
    /\ pc # "failed" => ctor_error = <<>> /\ "_versions_dict" \in attrs

\* C1 witness: construction failed on a module with two defaults that belong
\* to different apps, and on a list with a module that has no default.
C1_Witness ==
  /\ pc = "failed"
  /\ ctor_error[1].num = 2
  /\ \E i, j \in 1..Len(app_versions) :
       /\ app_versions[i].module = ctor_error[1].module
       /\ app_versions[j].module = ctor_error[1].module
       /\ app_versions[i].app_id # app_versions[j].app_id
       /\ app_versions[i].is_default_for_module
       /\ app_versions[j].is_default_for_module

\* The records the three lookups of C2 name, when the key is found.
IsAppDefaultOf(r, app_id) ==
  r.app_id = app_id /\ r.is_default_module

IsModuleDefaultOf(r, app_id, module) ==
  /\ r.module = module
  /\ r.is_default_for_module
  /\ r.app_id = app_id
  /\ \A i \in 1..Len(app_versions) :
       (app_versions[i].module = module /\ app_versions[i].is_default_for_module)
         => app_versions[i] = r

P2Lookups ==
  app_versions = ListP2 /\ LookedUp /\ call.app_id = X =>
    /\ (call.module = None /\ call.version = None) => app_version = << ListP2[1] >>
    /\ (call.module = A /\ call.version = None) => app_version = << ListP2[1] >>
    /\ (call.module = A /\ call.version = v1) => app_version = << ListP2[1] >>
    /\ (call.module = A /\ call.version = v2) => app_version = << ListP2[2] >>
    /\ (call.module = A /\ call.version = v3) =>
         app_version = <<>> /\ result.kind = "UnknownVersion"

\* C2 as stated: whenever a lookup finds its key, the record found is the
\* app-default record of appId (no module, no version), the unique
\* module-default record of the module (module only), the record whose full
\* name is the key (both); with the P2 lookups.
C2_Original ==
  /\ P2Lookups
  /\ (LookedUp /\ app_version # <<>>) =>
       LET r == app_version[1]
       IN  /\ (call.module = None /\ call.version = None) =>
                (version_full_name = call.app_id /\ IsAppDefaultOf(r, call.app_id))
           /\ (call.module # None /\ call.version = None) =>
                IsModuleDefaultOf(r, call.app_id, call.module)
           /\ (call.module # None /\ call.version # None) =>
                full_name(r) = version_full_name

\* C2 amended: the same, for records and arguments whose names contain no
\* ".": the key is found exactly when the list has a matching record, and
\* the record found is the last record of the list that is both module default
\* and app default for appId, the unique module-default record of the module
\* (which belongs to appId), or the last record with that app id, module and
\* version; the P2 lookups give v1, v1, v1, v2 and UnknownVersion.
C2_ResolveDotFree ==
  /\ P2Lookups
  /\ (LookedUp /\ RecordsDotFree /\ CallDotFree) =>
       LET AppDef(r) == /\ r.app_id = call.app_id
                        /\ r.is_default_for_module /\ r.is_default_module
           ModDef(r) == /\ r.app_id = call.app_id /\ r.module = call.module
                        /\ r.is_default_for_module
           Full(r)   == /\ r.app_id = call.app_id /\ r.module = call.module
                        /\ r.version = call.version
           i == IF call.module = None THEN LastIndex(AppDef)
                ELSE IF call.version = None THEN LastIndex(ModDef)
                ELSE LastIndex(Full)
       IN  /\ i = 0 => app_version = <<>> /\ result.kind = "UnknownVersion"
           /\ i # 0 => app_version = << app_versions[i] >>
           /\ (i # 0 /\ call.module # None /\ call.version = None) =>
                IsModuleDefaultOf(app_versions[i], call.app_id, call.module)

\* C2 witness: a list holding two records of one full name, the later of
\* which a full lookup returned.
C2_Witness ==
  /\ LookedUp /\ RecordsDotFree /\ CallDotFree
  /\ call.version # None
  /\ app_version # <<>>
  /\ Len(app_versions) = 2
  /\ full_name(app_versions[1]) = full_name(app_versions[2])
  /\ app_versions[1] # app_versions[2]
  /\ app_version[1] = app_versions[2]

\* The error lists every key of the alias table, once, in ascending order.
KnownIsSortedKeys ==
  /\ { result.known[i] : i \in 1..Len(result.known) } = DOMAIN versions_dict
  /\ Len(result.known) = Cardinality(DOMAIN versions_dict)
  /\ \A i, j \in 1..Len(result.known) :
       i < j => StrLess(result.known[i], result.known[j])

CallKey == get_version_alias(call.app_id, call.module, call.version)

\* C3 as stated: a call fails with UnknownVersion exactly when the computed
\* key has no entry, and the error carries the missing key and every key of
\* the table in ascending order.
C3_Original ==
  pc = "called" =>
    /\ (result.kind = "UnknownVersion") <=> (CallKey \notin DOMAIN versions_dict)
    /\ result.kind = "UnknownVersion" =>
         /\ CallKey \in {result.v, result.m}
         /\ KnownIsSortedKeys

\* C3 amended: a call fails with UnknownVersion exactly when it reaches the
\* lookup (str.format on the path raised nothing) and the computed key has no
\* entry; the error carries the version and module arguments, not the
\* computed key, and every key of the table, once, in ascending order.
C3_UnknownVersion ==
  pc = "called" =>
    /\ (result.kind = "UnknownVersion") <=>
         (version_full_name # None /\ version_full_name \notin DOMAIN versions_dict)
    /\ version_full_name # None => version_full_name = CallKey
    /\ result.kind = "UnknownVersion" =>
         /\ result.v = call.version
         /\ result.m = call.module
         /\ CallKey \notin {result.v, result.m}
         /\ KnownIsSortedKeys

\* C3 witness: UnknownVersion raised against a table of at least five keys.
C3_Witness ==
  /\ pc = "called"
  /\ result.kind = "UnknownVersion"
  /\ Len(result.known) >= 5
  /\ call.version # None

InsertedKeysDistinct ==
  \A i, j \in 1..Len(inserted) : i # j => inserted[i][1] # inserted[j][1]

\* C4 as stated: for every list that passes the validation, no insertion of
\* the three tiers sets a key an earlier insertion set: the inserted keys are
\* pairwise distinct.
C4_Original == Constructed => InsertedKeysDistinct

\* At most one record per (app id, module, version).
FullNamesDistinct ==
  \A i, j \in 1..Len(app_versions) :
    i # j => \/ app_versions[i].app_id # app_versions[j].app_id
             \/ app_versions[i].module # app_versions[j].module
             \/ app_versions[i].version # app_versions[j].version

\* At most one record per app id that is both module default and app default.
OneAppDefaultPerApp ==
  \A i, j \in 1..Len(app_versions) :
    ( /\ i # j
      /\ app_versions[i].is_default_for_module /\ app_versions[i].is_default_module
      /\ app_versions[j].is_default_for_module /\ app_versions[j].is_default_module )
      => app_versions[i].app_id # app_versions[j].app_id

\* C4 amended: the inserted keys are pairwise distinct for every list that
\* passes the validation and, besides, has no "." in its names, no two records
\* of one (app id, module, version) and at most one record per app id that is
\* both module default and app default.
C4_DistinctKeys ==
  (Constructed /\ RecordsDotFree /\ FullNamesDistinct /\ OneAppDefaultPerApp)
    => InsertedKeysDistinct

\* C4 witness: a list under those conditions whose three tiers all insert.
C4_Witness ==
  /\ Constructed /\ RecordsDotFree /\ FullNamesDistinct /\ OneAppDefaultPerApp
  /\ Len(app_versions) = 2
  /\ Len(inserted) = 5
  /\ InsertedKeysDistinct

\* C5: once construction is complete no build_url call, successful or not,
\* and no return from one changes the alias table or the stored language.
C5_TableNeverMutated ==
  [][ Constructed =>
        /\ versions_dict' = versions_dict
        /\ self_language' = self_language
        /\ attrs' = attrs ]_vars

\* C5 witness: a call that failed with UnknownVersion against a non-empty
\* table equal to the one construction left.
C5_Witness ==
  /\ pc = "called"
  /\ result.kind = "UnknownVersion"
  /\ versions_dict # <<>>
  /\ versions_dict = DictOf(inserted)
  /\ self_language = language

UrlApiX ==
  << "h","t","t","p","s",":","/","/","h",":","1","/","a","p","i","/","x" >>

\* C6: a returned URL is the chosen base URL (https_url when https, else
\* http_url) without its trailing slashes, one "/", and the formatted path
\* without its leading slashes; "https://h:1/" with "/api/x" and
\* "https://h:1" with "api/x" both give "https://h:1/api/x".
C6_SingleSlashJoin ==
  (pc = "called" /\ result.kind = "url") =>
    LET base == IF call.https THEN app_version[1].https_url
                ELSE app_version[1].http_url
        sub  == format(call.path, self_language).s
        url  == result.url
    IN  /\ \E n \in 0..Len(base), k \in 0..Len(sub) :
             /\ \A i \in (n + 1)..Len(base) : base[i] = "/"
             /\ n = 0 \/ base[n] # "/"
             /\ \A i \in 1..k : sub[i] = "/"
             /\ k = Len(sub) \/ sub[k + 1] # "/"
             /\ url = SubSeq(base, 1, n) \o << "/" >> \o SubSeq(sub, k + 1, Len(sub))
        /\ (base = HttpsSlash /\ call.path = PathApiX) => url = UrlApiX
        /\ (base = HttpsNoSlash /\ call.path = PathApiXBare) => url = UrlApiX

\* C6 witness: "https://h:1/api/x" returned for the base with a trailing
\* slash and the path with a leading one.
C6_Witness ==
  /\ pc = "called"
  /\ result.kind = "url"
  /\ call.https
  /\ app_version[1].https_url = HttpsSlash
  /\ call.path = PathApiX
  /\ result.url = UrlApiX

\* C6 second witness state: the same URL from the base and path without slashes.
C6_WitnessBare ==
  /\ pc = "called"
  /\ result.kind = "url"
  /\ call.https
  /\ app_version[1].https_url = HttpsNoSlash
  /\ call.path = PathApiXBare
  /\ result.url = UrlApiX

\* C7 as stated: whatever the arguments, build_url returns a URL or fails
\* with UnknownVersion, and construction fails with ImproperVersionsList only.
C7_TwoOutcomes ==
  /\ pc = "called" => result.kind \in {"url", "UnknownVersion"}
  /\ pc = "failed" => Len(ctor_error) = 1

\* path.replace("{lang}", value): every occurrence, left to right, one pass.
RECURSIVE ReplaceLang(_, _)
ReplaceLang(path, value) ==
  IF path = <<>> THEN <<>>
  ELSE IF Len(path) >= 6 /\ SubSeq(path, 1, 6) = << "{" >> \o lang \o << "}" >>
  THEN value \o ReplaceLang(SubSeq(path, 7, Len(path)), value)
  ELSE << Head(path) >> \o ReplaceLang(Tail(path), value)

\* C8 as stated: the path part of a returned URL is the path with every
\* {lang} replaced by the language in one pass, and so the path itself when
\* it holds no {lang}, apart from the slashes removed at the join.
C8_LangReplaced ==
  (pc = "called" /\ result.kind = "url") =>
    LET base == IF call.https THEN app_version[1].https_url
                ELSE app_version[1].http_url
    IN  result.url = rstrip(base) \o << "/" >>
                       \o lstrip(ReplaceLang(call.path, self_language))

ScenarioKnown ==
  << moduleA \o dot \o sample,
     moduleB \o dot \o sample,
     sample,
     v1 \o dot \o moduleA \o dot \o sample,
     v1 \o dot \o moduleB \o dot \o sample,
     v2 \o dot \o moduleA \o dot \o sample >>

ScenarioLookups ==
  (app_versions = ListScenario /\ LookedUp /\ call.app_id = sample) =>
    /\ (call.module = moduleB /\ call.version = None) =>
         app_version = << ListScenario[3] >>
    /\ (call.module = None /\ call.version = None) =>
         app_version = << ListScenario[3] >>
    /\ (call.module = moduleA /\ call.version = v2) =>
         app_version = << ListScenario[2] >>
    /\ (call.module = moduleC /\ call.version = None) =>
         /\ result.kind = "UnknownVersion"
         /\ KnownIsSortedKeys

\* C9 as stated: in the scenario the lookups of moduleB and of the bare app
\* give moduleB/v1, that of moduleA v2 gives moduleA/v2, and that of moduleC
\* fails with UnknownVersion listing the known keys sorted, 5 of them.
C9_Original ==
  /\ ScenarioLookups
  /\ ( /\ app_versions = ListScenario /\ LookedUp /\ call.app_id = sample
       /\ call.module = moduleC /\ call.version = None )
       => Len(result.known) = 5

\* C9 amended: the same, the known keys being 6: three full names, the two
\* module aliases and the application alias.
C9_ScenarioSixKeys ==
  /\ ScenarioLookups
  /\ ( /\ app_versions = ListScenario /\ LookedUp /\ call.app_id = sample
       /\ call.module = moduleC /\ call.version = None )
       => (Len(result.known) = 6 /\ result.known = ScenarioKnown)
  /\ (app_versions = ListScenario /\ pc # "new") => Constructed

\* C9 witness: the moduleC lookup of the scenario has failed.
C9_Witness ==
  /\ app_versions = ListScenario /\ LookedUp /\ call.app_id = sample
  /\ call.module = moduleC /\ call.version = None
  /\ result.kind = "UnknownVersion"

\* The records flagged app default but not module default.
AppOnlyDefault(r) == r.is_default_module /\ ~r.is_default_for_module

\* C10 as stated: a record of a validated list flagged app default but not
\* module default is folded into the app-level alias, so that a lookup of its
\* bare app id returns a record that is not a module default.
C10_Original ==
  Constructed =>
    \A i \in 1..Len(app_versions) :
      AppOnlyDefault(app_versions[i]) =>
        /\ app_versions[i].app_id \in DOMAIN versions_dict
        /\ ~versions_dict[app_versions[i].app_id].is_default_for_module
        /\ ( /\ LookedUp /\ call.app_id = app_versions[i].app_id
             /\ call.module = None /\ call.version = None )
             => (app_version # <<>> /\ ~app_version[1].is_default_for_module)

\* Number of records flagged is_default_for_module.
ModuleDefaults ==
  Cardinality({ i \in 1..Len(app_versions) :
                  app_versions[i].is_default_for_module })

\* C10 amended: the application aliases are taken from the module-default
\* records only: every pair of the third tier holds a record that is both
\* module default and app default, under its app id, so a record flagged app
\* default but not module default is never folded in; a lookup of a bare app
\* id without "." returns a record that is both, or fails with UnknownVersion.
C10_AppAliasFromModuleDefaults ==
  Constructed =>
    /\ \A i \in (Len(app_versions) + ModuleDefaults + 1)..Len(inserted) :
         /\ inserted[i][2].is_default_for_module
         /\ inserted[i][2].is_default_module
         /\ inserted[i][1] = inserted[i][2].app_id
    /\ Len(inserted) = Len(app_versions) + ModuleDefaults
         + Cardinality({ i \in 1..Len(app_versions) :
                           /\ app_versions[i].is_default_for_module
                           /\ app_versions[i].is_default_module })
    /\ \A k \in DOMAIN versions_dict :
         DotFree(k) => ( /\ versions_dict[k].is_default_for_module
                         /\ versions_dict[k].is_default_module
                         /\ versions_dict[k].app_id = k )
    /\ ( /\ LookedUp /\ DotFree(call.app_id)
         /\ call.module = None /\ call.version = None )
         => \/ result.kind = "UnknownVersion"
            \/ /\ app_version # <<>>
               /\ app_version[1].is_default_for_module
               /\ app_version[1].is_default_module

\* C10 witness: the list holds a record flagged app default only, and the
\* lookup of its bare app id has failed with UnknownVersion.
C10_Witness ==
  /\ LookedUp
  /\ call.module = None /\ call.version = None
  /\ \E i \in 1..Len(app_versions) :
       AppOnlyDefault(app_versions[i]) /\ app_versions[i].app_id = call.app_id
  /\ result.kind = "UnknownVersion"

\* C11: every get request ends with a status written: success true with
\* the stored counter (and backup, in xg mode) when its transaction committed,
\* success false with the counters as they were stored before the request
\* when it aborted.
C11_StatusAlwaysReported ==
  request.method = "get" =>
    /\ txn \in {"commit", "abort"}
    /\ response.kind = "status"
    /\ response.success = (txn = "commit")
    /\ response.counter = << store[request.key] >>
    /\ request.xg => response.backup = << store[backup_key(request.key)] >>
    /\ txn = "abort" =>
         /\ store = before
         /\ response.counter = << before[request.key] >>

StoredInRange(k) == k \in DOMAIN store => store[k] \in 1..(MockLimit - 1)

\* C12 as stated: every stored counter has a value in 1..4, and a stored
\* backup counter is never greater than the stored counter of its key.
C12_Original ==
  /\ \A k \in DOMAIN store : StoredInRange(k)
  /\ \A k \in DOMAIN store :
       backup_key(k) \in DOMAIN store => store[backup_key(k)] <= store[k]

\* No key requested since the datastore was last emptied is another such key
\* followed by "_backup".
NoBackupKeyRequested == \A k \in requested : backup_key(k) \notin requested

\* C12 amended: as long as no get request has used a key that is another
\* requested key followed by "_backup" (since the last delete), only the
\* requested keys and their backups are stored, every stored counter and
\* backup has a value in 1..4, and a backup is stored only with its counter
\* and is never greater than it.
C12_CountersInRange ==
  NoBackupKeyRequested =>
    /\ DOMAIN store \subseteq requested \cup { backup_key(k) : k \in requested }
    /\ \A k \in requested :
         /\ StoredInRange(k)
         /\ backup_key(k) \in DOMAIN store =>
              /\ k \in DOMAIN store
              /\ store[backup_key(k)] \in 1..store[k]

\* C12 witness: with no backup key requested, a request aborted on reaching 5
\* and left the counter at 4 above its backup.
C12_Witness ==
  /\ NoBackupKeyRequested
  /\ request.method = "get" /\ txn = "abort"
  /\ request.key \in DOMAIN store /\ store[request.key] = 4
  /\ backup_key(request.key) \in DOMAIN store
  /\ store[backup_key(request.key)] < store[request.key]

====
